---- MODULE Spec2Model ----
(***************************************************************************)
(* Model of the Solana HTTP gateway of src/main.rs: the process-wide token *)
(* metadata cache TOKEN_MAP (a tokio RwLock around (HashMap, SystemTime)), *)
(* refresh_token_map, get_token_map, the join of get_spl_tokens and        *)
(* get_sol_balance.  Every request handler is a task; a task is suspended  *)
(* at each .await and the steps of different tasks interleave freely (the  *)
(* runtime has several worker threads).                                    *)
(***************************************************************************)
EXTENDS Integers, Sequences, FiniteSets, TLC

\* ------------------------------------------------------------------ bounds
NumTasks == 2          \* tasks that may run concurrently
MaxPeriods == 1        \* freshness periods that can expire in one run

\* ------------------------------------------------------- program constants
FRESH_SECS == 3600     \* Duration::from_secs(3600), main.rs:33

Task == 1..NumTasks
NoTask == 0

\* Instants the wall clock is observed at: process start, the last second
\* of the first freshness period, and the first second after each period.
Instants == {0, FRESH_SECS} \cup {k * (FRESH_SECS + 1) : k \in 1..MaxPeriods}

\* ------------------------------------------------------------- JSON values
\* A JSON string is a TLA+ string; a JSON value that is not a string is
\* written "#...".  An object is a record that has the fields present.
NonStrings == {"#42"}
IsStr(v) == v \notin NonStrings
HasStr(obj, f) == f \in DOMAIN obj /\ IsStr(obj[f])

EmptyMap == <<>>
Put(m, k, v) == [x \in (DOMAIN m) \cup {k} |-> IF x = k THEN v ELSE m[x]]

\* The body of the token list URL: not JSON at all, or JSON with a "tokens"
\* array (hasTokens) or without one.
NonJsonDoc == [json |-> FALSE, hasTokens |-> FALSE, tokens |-> <<>>]
DocNoTokens == [json |-> TRUE, hasTokens |-> FALSE, tokens |-> <<>>]
\* A token list with a mint listed twice, an entry without address, an
\* entry whose address is not a string and entries lacking some fields.
DocA ==
  [json |-> TRUE, hasTokens |-> TRUE,
   tokens |-> << [address |-> "m1", symbol |-> "old"],
                 [symbol |-> "S0"],
                 [address |-> "#42", symbol |-> "S9"],
                 [address |-> "m2", symbol |-> "S2", name |-> "N2", logoURI |-> "L2"],
                 [address |-> "m1", symbol |-> "S1", name |-> "#42"] >>]
Docs == {NonJsonDoc, DocNoTokens, DocA}
\* {"tokens": []}
DocEmpty == [json |-> TRUE, hasTokens |-> TRUE, tokens |-> <<>>]
AllDocs == Docs \cup {DocEmpty}

\* main.rs:18-25: the mapping built from a fetched document.
RECURSIVE InsertTokens(_, _, _)
InsertTokens(tokens, i, m) ==
  IF i > Len(tokens) THEN m
  ELSE InsertTokens(tokens, i + 1,
         IF HasStr(tokens[i], "address")
           THEN Put(m, tokens[i].address, tokens[i])
           ELSE m)

BuildTokenMap(doc) ==
  IF doc.hasTokens THEN InsertTokens(doc.tokens, 1, EmptyMap) ELSE EmptyMap

\* A refresh that inserts only the mints the cache does not hold yet.
NewCacheMapOnlyNew(old, doc) ==
  LET m == BuildTokenMap(doc)
  IN [a \in (DOMAIN m) \ (DOMAIN old) |-> m[a]]

\* A refresh that adds the new entries to the ones the cache holds.
NewCacheMapMerged(old, doc) ==
  LET m == BuildTokenMap(doc)
  IN [a \in (DOMAIN m) \cup (DOMAIN old) |-> IF a \in DOMAIN m THEN m[a] ELSE old[a]]

\* main.rs:27: the value stored in the cache by a refresh that fetched doc.
NewCacheMap(old, doc) == BuildTokenMap(doc)

\* main.rs:33: cache.1.elapsed().unwrap_or(0) > 3600s
Elapsed(ts, now) == IF now >= ts THEN now - ts ELSE 0
IsStaleAtThreshold(ts, now) == Elapsed(ts, now) >= FRESH_SECS
IsStale(ts, now) == Elapsed(ts, now) > FRESH_SECS

\* ------------------------------------------------- RPC responses (main.rs:81)
\* value: "array", "absent" or "other" (present but not an array).
AcctM1 == [mint |-> "m1", amount |-> "1500", decimals |-> 2]
AcctM2 == [mint |-> "m2", amount |-> "0", decimals |-> 9]
AcctNoMint == [amount |-> "7", decimals |-> 0]
AcctM3 == [mint |-> "m3", amount |-> "abc"]
AcctNumMint == [mint |-> "#42", amount |-> "7", decimals |-> 0]
RespAbsent == [value |-> "absent", accounts |-> <<>>]
RespOther == [value |-> "other", accounts |-> <<>>]
RespZero == [value |-> "array", accounts |-> <<>>]
RespSome == [value |-> "array", accounts |-> <<AcctM2, AcctNoMint, AcctM3, AcctNumMint, AcctM1>>]
RpcResponses == {RespAbsent, RespOther, RespZero, RespSome}

\* main.rs:82-85
TokenAccounts(resp) == IF resp.value = "array" THEN resp.accounts ELSE <<>>

\* main.rs:93-95: amount_str.parse::<f64>().unwrap_or(0.0) over 10^decimals,
\* kept as the fraction num/den.
ParseF64(s) == CASE s = "1500" -> 1500 [] s = "7" -> 7 [] s = "0" -> 0 [] OTHER -> 0
RECURSIVE Pow10(_)
Pow10(n) == IF n = 0 THEN 1 ELSE 10 * Pow10(n - 1)

\* A merge that copies a metadata field whatever its JSON type.
WithFieldAnyType(rec, meta, f) ==
  IF f \in DOMAIN meta THEN Put(rec, f, meta[f]) ELSE rec

\* main.rs:97-107: one output record.
WithField(rec, meta, f) ==
  IF HasStr(meta, f) THEN Put(rec, f, meta[f]) ELSE rec

TokenInfo(account, token_map) ==
  LET mint == account.mint
      amount_str == IF HasStr(account, "amount") THEN account.amount ELSE "0"
      decimals == IF "decimals" \in DOMAIN account THEN account.decimals ELSE 0
      base == [mint |-> mint,
               amount |-> [num |-> ParseF64(amount_str), den |-> Pow10(decimals)],
               decimals |-> decimals]
  IN IF mint \in DOMAIN token_map
       THEN WithField(WithField(WithField(base, token_map[mint], "symbol"),
                                token_map[mint], "name"),
                      token_map[mint], "logoURI")
       ELSE base

\* A loop that puts each record in front of the earlier ones.
RECURSIVE EnrichNewestFirst(_, _, _, _)
EnrichNewestFirst(accounts, i, token_map, out) ==
  IF i > Len(accounts) THEN out
  ELSE EnrichNewestFirst(accounts, i + 1, token_map,
         IF HasStr(accounts[i], "mint")
           THEN <<TokenInfo(accounts[i], token_map)>> \o out
           ELSE out)

\* main.rs:90-111
RECURSIVE Enrich(_, _, _, _)
Enrich(accounts, i, token_map, out) ==
  IF i > Len(accounts) THEN out
  ELSE Enrich(accounts, i + 1, token_map,
         IF HasStr(accounts[i], "mint")
           THEN Append(out, TokenInfo(accounts[i], token_map))
           ELSE out)

\* main.rs:81-113: what get_spl_tokens returns once the join has completed:
\* rpc is the outcome of send(), body the outcome of json(), tmr the outcome
\* of get_token_map.
NoValue == <<>>
\* A join that looks at the metadata outcome first.
JoinOutcomeMetaFirst(rpcOk, bodyOk, resp, tmr) ==
  IF tmr.kind # "ok" THEN [kind |-> "err_meta", value |-> NoValue]
  ELSE IF ~rpcOk \/ ~bodyOk THEN [kind |-> "err_rpc", value |-> NoValue]
  ELSE [kind |-> "ok", value |-> Enrich(TokenAccounts(resp), 1, tmr.map, <<>>)]

\* A join that reports a wallet without token accounts as a failure.
JoinOutcomeEmptyFails(rpcOk, bodyOk, resp, tmr) ==
  IF ~rpcOk \/ ~bodyOk THEN [kind |-> "err_rpc", value |-> NoValue]
  ELSE IF tmr.kind # "ok" THEN [kind |-> "err_meta", value |-> NoValue]
  ELSE IF TokenAccounts(resp) = <<>> THEN [kind |-> "err_rpc", value |-> NoValue]
  ELSE [kind |-> "ok", value |-> Enrich(TokenAccounts(resp), 1, tmr.map, <<>>)]

JoinOutcome(rpcOk, bodyOk, resp, tmr) ==
  IF ~rpcOk THEN [kind |-> "err_rpc", value |-> NoValue]
  ELSE IF ~bodyOk THEN [kind |-> "err_rpc", value |-> NoValue]
  ELSE IF tmr.kind # "ok" THEN [kind |-> "err_meta", value |-> NoValue]
  ELSE [kind |-> "ok", value |-> Enrich(TokenAccounts(resp), 1, tmr.map, <<>>)]

\* main.rs:125-130: lamports is a u64, written here as giga * 10^9 + rest;
\* sol = lamports / 10^9 is then giga + rest / 10^9.
LAMPORTS_PER_SOL == 1000000000
Lamports == {[giga |-> 0, rest |-> 0], [giga |-> 2, rest |-> 500000000]}
SolBalance(lamports) ==
  [lamports |-> lamports,
   sol |-> [whole |-> lamports.giga,
            frac |-> [num |-> lamports.rest, den |-> LAMPORTS_PER_SOL]]]

\* ---------------------------------------------- the RwLock (tokio, FIFO fair)
\* readers[t]: read guards task t holds; writers: holders of the write guard;
\* queue: the waiters in arrival order; lastw: the task the write guard was
\* granted to last.
NoReaders(l) == \A t \in Task : l.readers[t] = 0
\* A lock that admits readers while a writer holds it.
CanGrantReadDuringWrite(l) == TRUE
CanGrantRead(l) == l.writers = {}
\* A lock that admits a writer while readers hold it, and one that admits a
\* second writer.
CanGrantWriteOverReaders(l) == l.writers = {}
CanGrantWriteOverWriter(l) == NoReaders(l)
CanGrantWrite(l) == l.writers = {} /\ NoReaders(l)
CanGrant(l, w) == IF w.mode = "r" THEN CanGrantRead(l) ELSE CanGrantWrite(l)
Grant(l, w) ==
  IF w.mode = "r"
    THEN [l EXCEPT !.readers[w.task] = @ + 1]
    ELSE [l EXCEPT !.writers = @ \cup {w.task}, !.lastw = w.task]

\* A request is granted at once only when nobody is queued; otherwise it
\* waits behind the earlier waiters.
Acquire(l, t, mode) ==
  LET w == [task |-> t, mode |-> mode]
  IN IF l.queue = <<>> /\ CanGrant(l, w)
       THEN Grant(l, w)
       ELSE [l EXCEPT !.queue = Append(@, w)]

\* Dropping a guard hands the lock to the waiters at the head of the queue.
RECURSIVE Drain(_)
Drain(l) ==
  IF l.queue # <<>> /\ CanGrant(l, Head(l.queue))
    THEN Drain(Grant([l EXCEPT !.queue = Tail(@)], Head(l.queue)))
    ELSE l

ReleaseRead(l, t, n) == Drain([l EXCEPT !.readers[t] = @ - n])
ReleaseWrite(l, t) == Drain([l EXCEPT !.writers = @ \ {t}])
Waiting(l, t) == \E i \in 1..Len(l.queue) : l.queue[i].task = t

\* -------------------------------------------------------------------- state
VARIABLES
  clock,       \* SystemTime::now()
  inited,      \* TOKEN_MAP's Lazy has run (a get_token_map call has started)
  second,      \* a second get_token_map call has started
  cache,       \* TOKEN_MAP's value: [map, ts]
  tag,         \* history of the cache: the task whose refresh wrote cache.map
               \* and cache.ts (0: none), the document cache.map was built
               \* from, and whether that write repeated the same document
  lock,        \* TOKEN_MAP's RwLock
  upstream,    \* the document served at TOKEN_LIST_URL
  docChanged,  \* upstream has changed since process start
  pc,          \* per task: "idle", "call", "join", "body", "balance", "done", "sent"
  rpc,         \* per task: outcome of CLIENT.post(RPC_URL).send()
  tm,          \* per task: position inside get_token_map / refresh_token_map
  stale,       \* per task: the branch taken at main.rs:33
  token_list,  \* per task: the document fetched at main.rs:17
  obs,         \* per task: the cache value when its refresh started
  tmres,       \* per task: what get_token_map returned
  resp,        \* per task: the parsed RPC response (main.rs:81)
  result,      \* per task: what get_spl_tokens / get_sol_balance returned
  reply        \* per task: the body of the HTTP reply it has sent

vars == <<clock, inited, second, cache, tag, lock, upstream, docChanged,
          pc, rpc, tm, stale, token_list, obs, tmres, resp, result, reply>>

shared == <<clock, inited, second, cache, tag, lock, upstream, docChanged>>

InitCache == [map |-> EmptyMap, ts |-> 0]
NoTmRes == [kind |-> "none", map |-> EmptyMap]
NoResult == [kind |-> "none", value |-> NoValue]
NoReply == [sent |-> FALSE, body |-> NoValue]

InitWith(docs) ==
  /\ clock = 0
  /\ inited = FALSE
  /\ second = FALSE
  /\ cache = InitCache
  /\ tag = [map |-> NoTask, ts |-> NoTask, doc |-> NonJsonDoc, rep |-> FALSE]
  /\ lock = [readers |-> [t \in Task |-> 0], writers |-> {}, queue |-> <<>>,
             lastw |-> NoTask]
  /\ upstream \in docs
  /\ docChanged = FALSE
  /\ pc = [t \in Task |-> "idle"]
  /\ rpc = [t \in Task |-> "none"]
  /\ tm = [t \in Task |-> "none"]
  /\ stale = [t \in Task |-> FALSE]
  /\ token_list = [t \in Task |-> NonJsonDoc]
  /\ obs = [t \in Task |-> InitCache]
  /\ tmres = [t \in Task |-> NoTmRes]
  /\ resp = [t \in Task |-> RespAbsent]
  /\ result = [t \in Task |-> NoResult]
  /\ reply = [t \in Task |-> NoReply]

Init == InitWith(Docs)

\* ------------------------------------------------------------- environment
\* Time passes (the wall clock is taken never to be set back, so the
\* unwrap_or of main.rs:33 is not exercised).
Tick ==
  /\ \E now \in Instants : now > clock /\ clock' = now
  /\ UNCHANGED <<inited, second, cache, tag, lock, upstream, docChanged,
                 pc, rpc, tm, stale, token_list, obs, tmres, resp, result, reply>>

\* The maintainers of the token list publish another document.
Publish(docs) ==
  /\ \E d \in docs : d # upstream /\ upstream' = d
  /\ docChanged' = TRUE
  /\ UNCHANGED <<clock, inited, second, cache, tag, lock,
                 pc, rpc, tm, stale, token_list, obs, tmres, resp, result, reply>>

UpstreamChange == Publish(Docs)

\* ----------------------------------------------------------- get_token_map
\* main.rs:31-32: get_token_map is entered and requests its first read
\* guard.  The first use of TOKEN_MAP runs the Lazy initialiser
\* (main.rs:13-14), which stamps the empty mapping with the current time.
EnterGetTokenMap(t) ==
  /\ tm' = [tm EXCEPT ![t] = "check"]
  /\ inited' = TRUE
  /\ second' = inited
  /\ cache' = IF inited THEN cache ELSE [map |-> EmptyMap, ts |-> clock]
  /\ lock' = Acquire(lock, t, "r")

\* A caller of get_token_map alone (the cache seen through its contract).
StartCall(t) ==
  /\ pc[t] = "idle"
  /\ pc' = [pc EXCEPT ![t] = "call"]
  /\ EnterGetTokenMap(t)
  /\ UNCHANGED <<clock, tag, upstream, docChanged,
                 rpc, stale, token_list, obs, tmres, resp, result, reply>>

\* main.rs:32-36: the read guard is granted; the timestamp is compared with
\* the clock.  Stale: the guard is dropped and refresh_token_map sends its
\* request.  Fresh: the guard stays alive until the function returns.
CheckStale(t) ==
  /\ tm[t] = "check"
  /\ ~Waiting(lock, t)
  /\ IF IsStale(cache.ts, clock)
       THEN /\ stale' = [stale EXCEPT ![t] = TRUE]
            /\ obs' = [obs EXCEPT ![t] = cache]
            /\ lock' = ReleaseRead(lock, t, 1)
            /\ tm' = [tm EXCEPT ![t] = "fetch"]
       ELSE /\ stale' = [stale EXCEPT ![t] = FALSE]
            /\ obs' = obs
            /\ lock' = lock
            /\ tm' = [tm EXCEPT ![t] = "read2"]
  /\ UNCHANGED <<clock, inited, second, cache, tag, upstream, docChanged,
                 pc, rpc, token_list, tmres, resp, result, reply>>

\* main.rs:17-26: the token list arrives and parses as JSON; the mapping is
\* built and the write lock is requested.
FetchOk(t) ==
  /\ tm[t] = "fetch"
  /\ upstream.json
  /\ token_list' = [token_list EXCEPT ![t] = upstream]
  /\ lock' = Acquire(lock, t, "w")
  /\ tm' = [tm EXCEPT ![t] = "wts"]
  /\ obs' = [obs EXCEPT ![t] = InitCache]
  /\ UNCHANGED <<clock, inited, second, cache, tag, upstream, docChanged,
                 pc, rpc, stale, tmres, resp, result, reply>>

\* A refresh that empties the cache when its fetch fails.
FetchErrClears(t) ==
  /\ tm[t] = "fetch"
  /\ tmres' = [tmres EXCEPT ![t] = [kind |-> "err", map |-> EmptyMap]]
  /\ tm' = [tm EXCEPT ![t] = "done"]
  /\ stale' = [stale EXCEPT ![t] = FALSE]
  /\ obs' = [obs EXCEPT ![t] = InitCache]
  /\ cache' = [cache EXCEPT !.map = EmptyMap]
  /\ UNCHANGED <<clock, inited, second, tag, lock, upstream, docChanged,
                 pc, rpc, token_list, resp, result, reply>>

\* A get_token_map that starts over when its fetch fails.
FetchErrRetries(t) ==
  /\ tm[t] = "fetch"
  /\ tm' = [tm EXCEPT ![t] = "check"]
  /\ stale' = [stale EXCEPT ![t] = FALSE]
  /\ obs' = [obs EXCEPT ![t] = InitCache]
  /\ lock' = Acquire(lock, t, "r")
  /\ UNCHANGED <<clock, inited, second, cache, tag, upstream, docChanged,
                 pc, rpc, token_list, tmres, resp, result, reply>>

\* main.rs:17 and 35: the fetch fails (transport error, or a body that is
\* not JSON); `?` returns the error from refresh_token_map and from
\* get_token_map.
FetchErr(t) ==
  /\ tm[t] = "fetch"
  /\ tmres' = [tmres EXCEPT ![t] = [kind |-> "err", map |-> EmptyMap]]
  /\ tm' = [tm EXCEPT ![t] = "done"]
  /\ stale' = [stale EXCEPT ![t] = FALSE]
  /\ obs' = [obs EXCEPT ![t] = InitCache]
  /\ UNCHANGED <<shared, pc, rpc, token_list, resp, result, reply>>

\* main.rs:26-27: the write guard is granted; the store of the new pair
\* begins with the timestamp, SystemTime::now().
WriteTs(t) ==
  /\ tm[t] = "wts"
  /\ ~Waiting(lock, t)
  /\ cache' = [cache EXCEPT !.ts = clock]
  /\ tag' = [tag EXCEPT !.ts = t]
  /\ tm' = [tm EXCEPT ![t] = "wmap"]
  /\ UNCHANGED <<clock, inited, second, lock, upstream, docChanged,
                 pc, rpc, stale, token_list, obs, tmres, resp, result, reply>>

\* A refresh that stamps the cache and leaves the mapping as it finds it.
WriteMapKeepsOld(t) ==
  /\ tm[t] = "wmap"
  /\ cache' = cache
  /\ tag' = tag
  /\ lock' = ReleaseWrite(lock, t)
  /\ tm' = [tm EXCEPT ![t] = "read2"]
  /\ token_list' = [token_list EXCEPT ![t] = NonJsonDoc]
  /\ UNCHANGED <<clock, inited, second, upstream, docChanged,
                 pc, rpc, stale, obs, tmres, resp, result, reply>>

\* main.rs:27-29: the store ends with the mapping; the write guard is
\* dropped when refresh_token_map returns.
WriteMap(t) ==
  /\ tm[t] = "wmap"
  /\ cache' = [cache EXCEPT !.map = NewCacheMap(cache.map, token_list[t])]
  /\ tag' = [tag EXCEPT !.map = t, !.doc = token_list[t],
                         !.rep = (tag.map # NoTask /\ tag.doc = token_list[t])]
  /\ lock' = ReleaseWrite(lock, t)
  /\ tm' = [tm EXCEPT ![t] = "read2"]
  /\ token_list' = [token_list EXCEPT ![t] = NonJsonDoc]
  /\ UNCHANGED <<clock, inited, second, upstream, docChanged,
                 pc, rpc, stale, obs, tmres, resp, result, reply>>

\* main.rs:37: the second TOKEN_MAP.read() is requested.
ReadAgain(t) ==
  /\ tm[t] = "read2"
  /\ lock' = Acquire(lock, t, "r")
  /\ tm' = [tm EXCEPT ![t] = "clone"]
  /\ UNCHANGED <<clock, inited, second, cache, tag, upstream, docChanged,
                 pc, rpc, stale, token_list, obs, tmres, resp, result, reply>>

\* A snapshot read that moves the mapping out of the cache.
CloneMapTakes(t) ==
  /\ tm[t] = "clone"
  /\ ~Waiting(lock, t)
  /\ tmres' = [tmres EXCEPT ![t] = [kind |-> "ok", map |-> cache.map]]
  /\ cache' = [cache EXCEPT !.map = EmptyMap]
  /\ lock' = ReleaseRead(lock, t, lock.readers[t])
  /\ tm' = [tm EXCEPT ![t] = "done"]
  /\ stale' = [stale EXCEPT ![t] = FALSE]
  /\ UNCHANGED <<clock, inited, second, tag, upstream, docChanged,
                 pc, rpc, token_list, obs, resp, result, reply>>

\* main.rs:37-38: the second read guard is granted, the mapping is cloned
\* and every guard the call still holds is dropped on return.
CloneMap(t) ==
  /\ tm[t] = "clone"
  /\ ~Waiting(lock, t)
  /\ tmres' = [tmres EXCEPT ![t] = [kind |-> "ok", map |-> cache.map]]
  /\ lock' = ReleaseRead(lock, t, lock.readers[t])
  /\ tm' = [tm EXCEPT ![t] = "done"]
  /\ stale' = [stale EXCEPT ![t] = FALSE]
  /\ UNCHANGED <<clock, inited, second, cache, tag, upstream, docChanged,
                 pc, rpc, token_list, obs, resp, result, reply>>

\* The caller has its Result and goes away.
ReturnCall(t) ==
  /\ pc[t] = "call"
  /\ tm[t] = "done"
  /\ pc' = [pc EXCEPT ![t] = "idle"]
  /\ tm' = [tm EXCEPT ![t] = "none"]
  /\ tmres' = [tmres EXCEPT ![t] = NoTmRes]
  /\ UNCHANGED <<shared, rpc, stale, token_list, obs, resp, result, reply>>

\* ------------------------------------------------- GET /tokens/{wallet}
\* main.rs:43-44, 76-79: the handler polls the join, which sends the RPC
\* request and enters get_token_map.
StartTokens(t) ==
  /\ pc[t] = "idle"
  /\ pc' = [pc EXCEPT ![t] = "join"]
  /\ rpc' = [rpc EXCEPT ![t] = "pending"]
  /\ EnterGetTokenMap(t)
  /\ UNCHANGED <<clock, tag, upstream, docChanged,
                 stale, token_list, obs, tmres, resp, result, reply>>

\* main.rs:77: send() resolves, with a response or with a transport error.
RpcSendDone(t) ==
  /\ pc[t] = "join"
  /\ rpc[t] = "pending"
  /\ \E o \in {"ok", "err"} : rpc' = [rpc EXCEPT ![t] = o]
  /\ UNCHANGED <<shared, pc, tm, stale, token_list, obs, tmres, resp, result, reply>>

\* main.rs:76-81: both branches of the join have completed.  A failed send
\* returns its error; otherwise the body of the response is awaited.
JoinDone(t) ==
  /\ pc[t] = "join"
  /\ rpc[t] \in {"ok", "err"}
  /\ tm[t] = "done"
  /\ IF rpc[t] = "err"
       THEN /\ result' = [result EXCEPT ![t] = JoinOutcome(FALSE, FALSE, RespAbsent, tmres[t])]
            /\ pc' = [pc EXCEPT ![t] = "done"]
       ELSE /\ result' = result
            /\ pc' = [pc EXCEPT ![t] = "body"]
  /\ UNCHANGED <<shared, rpc, tm, stale, token_list, obs, tmres, resp, reply>>

\* A merge that looks each mint up in the shared cache.
BodyDoneFromCache(t) ==
  /\ pc[t] = "body"
  /\ \E bodyOk \in BOOLEAN, r \in RpcResponses :
       /\ ~bodyOk => r = RespAbsent
       /\ resp' = [resp EXCEPT ![t] = r]
       /\ rpc' = [rpc EXCEPT ![t] = IF bodyOk THEN "ok" ELSE "badjson"]
       /\ result' = [result EXCEPT ![t] =
                       JoinOutcome(TRUE, bodyOk, r, [tmres[t] EXCEPT !.map = cache.map])]
  /\ pc' = [pc EXCEPT ![t] = "done"]
  /\ UNCHANGED <<shared, tm, stale, token_list, obs, tmres, reply>>

\* main.rs:81-113: the body arrives; it parses or not.  The loop of
\* main.rs:91-111 has no await and reads only locals of the task.
BodyDone(t) ==
  /\ pc[t] = "body"
  /\ \E bodyOk \in BOOLEAN, r \in RpcResponses :
       /\ ~bodyOk => r = RespAbsent
       /\ resp' = [resp EXCEPT ![t] = r]
       /\ rpc' = [rpc EXCEPT ![t] = IF bodyOk THEN "ok" ELSE "badjson"]
       /\ result' = [result EXCEPT ![t] = JoinOutcome(TRUE, bodyOk, r, tmres[t])]
  /\ pc' = [pc EXCEPT ![t] = "done"]
  /\ UNCHANGED <<shared, tm, stale, token_list, obs, tmres, reply>>

\* ------------------------------------------------- GET /balance/{wallet}
\* A balance lookup that takes a read guard of the cache first.
StartBalanceReadsCache(t) ==
  /\ pc[t] = "idle"
  /\ pc' = [pc EXCEPT ![t] = "balance"]
  /\ rpc' = [rpc EXCEPT ![t] = "pending"]
  /\ lock' = Acquire(lock, t, "r")
  /\ UNCHANGED <<clock, inited, second, cache, tag, upstream, docChanged,
                 tm, stale, token_list, obs, tmres, resp, result, reply>>

\* main.rs:51-52, 124: the request is sent.
StartBalance(t) ==
  /\ pc[t] = "idle"
  /\ pc' = [pc EXCEPT ![t] = "balance"]
  /\ rpc' = [rpc EXCEPT ![t] = "pending"]
  /\ UNCHANGED <<shared, tm, stale, token_list, obs, tmres, resp, result, reply>>

\* main.rs:124-130
BalanceDone(t) ==
  /\ pc[t] = "balance"
  /\ \/ /\ rpc' = [rpc EXCEPT ![t] = "err"]
        /\ result' = [result EXCEPT ![t] = [kind |-> "err_rpc", value |-> NoValue]]
     \/ \E l \in Lamports :
        /\ rpc' = [rpc EXCEPT ![t] = "ok"]
        /\ result' = [result EXCEPT ![t] = [kind |-> "ok", value |-> SolBalance(l)]]
  /\ pc' = [pc EXCEPT ![t] = "done"]
  /\ UNCHANGED <<shared, tm, stale, token_list, obs, tmres, resp, reply>>

\* main.rs:45-46, 53-54: the body of the reply of each route.
\* A route that tells which of the two calls failed.
TokensReplyWithKind(res) ==
  IF res.kind = "ok" THEN res.value
  ELSE [error |-> "Failed to fetch tokens", kind |-> res.kind]
TokensReply(res) ==
  IF res.kind = "ok" THEN res.value ELSE [error |-> "Failed to fetch tokens"]
BalanceReply(res) ==
  IF res.kind = "ok" THEN res.value ELSE [error |-> "Failed to fetch balance"]

\* main.rs:44-46, 52-54: the handler matches on the Result and sends the
\* reply; its locals are dropped.
Reply(t) ==
  /\ pc[t] = "done"
  /\ pc' = [pc EXCEPT ![t] = "sent"]
  /\ reply' = [reply EXCEPT ![t] =
                 [sent |-> TRUE,
                  body |-> IF tm[t] = "done" THEN TokensReply(result[t])
                                             ELSE BalanceReply(result[t])]]
  /\ rpc' = [rpc EXCEPT ![t] = "none"]
  /\ tm' = [tm EXCEPT ![t] = "none"]
  /\ resp' = [resp EXCEPT ![t] = RespAbsent]
  /\ result' = [result EXCEPT ![t] = NoResult]
  /\ tmres' = [tmres EXCEPT ![t] = NoTmRes]
  /\ UNCHANGED <<shared, stale, token_list, obs>>

\* The client has the reply; the connection can carry the next request.
Close(t) ==
  /\ pc[t] = "sent"
  /\ pc' = [pc EXCEPT ![t] = "idle"]
  /\ reply' = [reply EXCEPT ![t] = NoReply]
  /\ UNCHANGED <<shared, rpc, tm, stale, token_list, obs, tmres, resp, result>>

\* ------------------------------------------------------------ specifications
\* The steps of a get_token_map call.
CallStep(t) ==
  \/ CheckStale(t)
  \/ FetchOk(t)
  \/ FetchErr(t)
  \/ WriteTs(t)
  \/ WriteMap(t)
  \/ ReadAgain(t)
  \/ CloneMap(t)

\* The steps of a request handler around its get_token_map call.
HandlerStep(t) ==
  \/ RpcSendDone(t)
  \/ JoinDone(t)
  \/ BodyDone(t)
  \/ BalanceDone(t)
  \/ Reply(t)
  \/ Close(t)

\* The cache under concurrent get_token_map callers.
Next ==
  \/ Tick
  \/ UpstreamChange
  \/ \E t \in Task : StartCall(t)
  \/ \E t \in Task : CallStep(t)
  \/ \E t \in Task : ReturnCall(t)

Spec == Init /\ [][Next]_vars

\* Every network call returns and every runnable task is scheduled.
FairSpec ==
  Spec /\ \A t \in Task : WF_vars(CallStep(t)) /\ WF_vars(ReturnCall(t))

\* The cache under concurrent callers, with every token list of AllDocs.
RefreshInit == InitWith(AllDocs)
PublishAny == Publish(AllDocs)
RefreshNext ==
  \/ Tick
  \/ PublishAny
  \/ \E t \in Task : StartCall(t)
  \/ \E t \in Task : CallStep(t)
  \/ \E t \in Task : ReturnCall(t)

RefreshSpec == RefreshInit /\ [][RefreshNext]_vars

\* The HTTP requests: the handler under observation runs both branches of
\* its join; the requests of the other tasks are followed through their
\* get_token_map calls, the only part of a request that touches shared state.
Handlers == {t \in Task : \A u \in Task : t <= u}
JoinNext ==
  \/ Tick
  \/ UpstreamChange
  \/ \E t \in Handlers : StartTokens(t)
  \/ \E t \in Handlers : StartBalance(t)
  \/ \E t \in Handlers : HandlerStep(t)
  \/ \E t \in Task \ Handlers : StartCall(t)
  \/ \E t \in Task \ Handlers : ReturnCall(t)
  \/ \E t \in Task : CallStep(t)

JoinSpec == Init /\ [][JoinNext]_vars

TypeOK ==
  /\ clock \in Instants
  /\ cache.ts \in Instants
  /\ \A t \in Task : lock.readers[t] \in 0..2
  /\ lock.writers \subseteq Task
  /\ pc \in [Task -> {"idle", "call", "join", "body", "balance", "done", "sent"}]
  /\ tm \in [Task -> {"none", "check", "fetch", "wts", "wmap", "read2", "clone", "done"}]

\* ------------------------------------------------------------------ claims
\* A task that holds a read guard and is queued for another one behind a
\* queued writer: the writer waits for the guard, the task for the writer.
StuckBehindWriter(t) ==
  /\ lock.readers[t] > 0
  /\ \E i, j \in 1..Len(lock.queue) :
       /\ i < j
       /\ lock.queue[i].mode = "w"
       /\ lock.queue[j] = [task |-> t, mode |-> "r"]

\* C1: no reachable state has a get_token_map caller that still holds the
\* read guard of its staleness check while it waits for its second read
\* lock behind a queued refresh writer (such a caller waits forever).
C1_NoCallerStuckBehindWriter == \A t \in Task : ~StuckBehindWriter(t)

\* Once a caller is stuck behind a writer it stays so (it never returns).
StuckIsForever ==
  [][\A t \in Task : StuckBehindWriter(t) => StuckBehindWriter(t)']_vars

\* Under fair scheduling, every get_token_map call returns.
EveryCallReturns ==
  \A t \in Task : (tm[t] \notin {"none", "done"}) ~> (tm[t] = "done")

\* The steps of get_token_map, recognised by the positions they join.
CheckStep(t) == tm[t] = "check" /\ tm'[t] # "check"
FetchFailStep(t) == tm[t] = "fetch" /\ tm'[t] = "done"
WriteTsStep(t) == tm[t] = "wts" /\ tm'[t] = "wmap"
WriteMapStep(t) == tm[t] = "wmap" /\ tm'[t] = "read2"
CloneStep(t) == tm[t] = "clone" /\ tm'[t] = "done"

\* C2: the first get_token_map call after startup (no second one has started)
\* finds the never-refreshed cache stale and goes on to refresh it.
C2_FirstCallRefreshes ==
  [][\A t \in Task : (~second /\ CheckStep(t)) => tm'[t] = "fetch"]_vars

\* C3: whenever a task holds a read guard, the mapping and the timestamp of
\* the cache were written by the same refresh (or are both the initial ones).
C3_ReadersSeeOnePair ==
  (\E t \in Task : lock.readers[t] > 0) => tag.map = tag.ts

\* Two readers hold the lock together on a refreshed cache.
C3_Witness ==
  /\ tag.map # NoTask
  /\ \E t, u \in Task : t # u /\ lock.readers[t] > 0 /\ lock.readers[u] > 0

\* C4: the staleness check goes on to the fetch exactly when the age of the
\* timestamp it reads exceeds 3600 s; otherwise the call keeps its guard,
\* never fetches, the cache does not change while it runs and it returns the
\* mapping of the cache.
C4_RefreshIffOlderThanThreshold ==
  [][\A t \in Task :
       /\ CheckStep(t) =>
            /\ (tm'[t] = "fetch") <=> (clock - cache.ts > FRESH_SECS)
            /\ tm'[t] # "fetch" => (tm'[t] = "read2" /\ ~stale'[t])
            /\ cache' = cache
       /\ (tm[t] \in {"read2", "clone"} /\ ~stale[t]) =>
            /\ tm'[t] \in {"read2", "clone", "done"}
            /\ cache' = cache
            /\ CloneStep(t) => tmres'[t] = [kind |-> "ok", map |-> cache.map]
    ]_vars

\* A call has found the cache exactly 3600 s old and skipped the refresh.
C4_Witness ==
  \E t \in Task :
    /\ tm[t] = "done" /\ tmres[t].kind = "ok"
    /\ tag.ts = NoTask
    /\ clock - cache.ts = FRESH_SECS

\* C5 as stated: when the fetch of a refresh fails, the error is returned and
\* the cache is what it was when that refresh started.
C5_FailedRefreshSeesStartCache ==
  [][\A t \in Task :
       FetchFailStep(t) => (tmres'[t].kind = "err" /\ cache' = obs[t])]_vars

\* C5 amended: a failed refresh writes nothing.  While a refresh is fetching,
\* the cache changes only in a write step of another task's refresh, and the
\* failing step returns the error and leaves the cache as it is.
C5_FailedRefreshWritesNothing ==
  [][\A t \in Task :
       /\ (tm[t] = "fetch" /\ cache' # cache) =>
            \E u \in Task \ {t} : tm[u] \in {"wts", "wmap"} /\ tm'[u] # tm[u]
       /\ FetchFailStep(t) => (tmres'[t].kind = "err" /\ cache' = cache)
    ]_vars

\* A refresh has failed on a cache that an earlier refresh had filled.
C5_Witness ==
  \E t \in Task :
    /\ tm[t] = "done" /\ tmres[t].kind = "err"
    /\ DOMAIN cache.map # {}

\* C6: while a task holds the write guard, it is the only holder: no other
\* write guard and no read guard is held.
C6_WriterExcludesAll ==
  lock.writers # {} => (Cardinality(lock.writers) = 1 /\ NoReaders(lock))

\* A refresh holds the write guard while another task waits for the lock.
C6_Witness == lock.writers # {} /\ lock.queue # <<>>

\* C7: once no refresh holds the write guard, the cache holds the mapping
\* and the timestamp written by the refresh that was granted the guard last;
\* and while the upstream document has never changed, every caller that ran
\* a refresh returns the mapping of that document.
C7_LastWriterWins ==
  /\ []((lock.writers = {} /\ lock.lastw # NoTask) =>
          (tag.map = lock.lastw /\ tag.ts = lock.lastw))
  /\ [][\A t \in Task :
          (CloneStep(t) /\ stale[t] /\ ~docChanged) =>
            tmres'[t] = [kind |-> "ok", map |-> BuildTokenMap(upstream)]]_vars

\* Two callers found the cache stale together and both have written.
C7_Witness ==
  \E t, u \in Task :
    /\ t # u
    /\ stale[t] /\ tm[t] \in {"read2", "clone"}
    /\ stale[u] /\ tm[u] \in {"read2", "clone"}
    /\ tag.rep

\* A tokens request that has its outcome.
TokensDone(t) == pc[t] = "done" /\ tm[t] = "done"

\* C8: the join starts both calls together and has an outcome only when
\* both have completed; the outcome is the RPC error when the RPC call
\* failed, else the metadata error when get_token_map failed, else success.
C8_JoinOutcome ==
  \A t \in Task :
    /\ pc[t] = "join" => (rpc[t] # "none" /\ tm[t] # "none")
    /\ (result[t].kind # "none" /\ tm[t] # "none") =>
         (TokensDone(t) /\ rpc[t] \in {"ok", "err", "badjson"}
           /\ tmres[t].kind \in {"ok", "err"})
    /\ TokensDone(t) =>
         /\ rpc[t] \in {"err", "badjson"} => result[t].kind = "err_rpc"
         /\ (rpc[t] = "ok" /\ tmres[t].kind = "err") => result[t].kind = "err_meta"
         /\ (rpc[t] = "ok" /\ tmres[t].kind = "ok") => result[t].kind = "ok"

\* Both calls of a join failed and the RPC error was returned.
C8_Witness ==
  \E t \in Task :
    TokensDone(t) /\ rpc[t] = "err" /\ tmres[t].kind = "err"
      /\ result[t].kind = "err_rpc"

\* The RPC call succeeded and its response holds no token account.
ZeroAccounts(t) ==
  TokensDone(t) /\ rpc[t] = "ok" /\ TokenAccounts(resp[t]) = <<>>

\* C9 as stated: a response without token accounts yields the empty
\* sequence, whatever get_token_map returned.
C9_ZeroAccountsAlwaysEmpty ==
  \A t \in Task : ZeroAccounts(t) => result[t] = [kind |-> "ok", value |-> <<>>]

\* C9 amended: a response without token accounts yields the empty sequence
\* when get_token_map succeeded, and the metadata error when it failed.
C9_ZeroAccountsEmptyUnlessMetaFails ==
  \A t \in Task :
    ZeroAccounts(t) =>
      /\ tmres[t].kind = "ok" => result[t] = [kind |-> "ok", value |-> <<>>]
      /\ tmres[t].kind = "err" => result[t].kind = "err_meta"

\* A response whose result.value is not an array gave the empty sequence.
C9_Witness ==
  \E t \in Task :
    ZeroAccounts(t) /\ resp[t] = RespOther /\ tmres[t].kind = "ok"
      /\ result[t] = [kind |-> "ok", value |-> <<>>]

\* C10: a refresh that fetched the document the cached mapping was built
\* from leaves the mapping as it is.
C10_RefreshIdempotent ==
  [][\A t \in Task :
       (WriteMapStep(t) /\ tag.map # NoTask /\ token_list[t] = tag.doc) =>
         cache'.map = cache.map]_vars

\* The same document has been written twice in a row and holds tokens.
C10_Witness == tag.rep /\ DOMAIN cache.map # {}

\* The positions of the token entries of a document that have a string
\* address, and the mapping the document stands for: every such address,
\* with the last entry listed under it.
AddressedEntries(doc) ==
  IF doc.hasTokens
    THEN {i \in 1..Len(doc.tokens) :
            "address" \in DOMAIN doc.tokens[i] /\ doc.tokens[i].address \notin NonStrings}
    ELSE {}
MappingOf(doc) ==
  LET idx == AddressedEntries(doc)
      last(a) == CHOOSE i \in idx :
                   /\ doc.tokens[i].address = a
                   /\ \A j \in idx : doc.tokens[j].address = a => j <= i
  IN [a \in {doc.tokens[i].address : i \in idx} |-> doc.tokens[last(a)]]

\* C11: the write of a successful refresh stamps the cache with the current
\* time and replaces its mapping by the mapping of the fetched document
\* alone: one entry for every address that a token entry has as a string,
\* nothing for the other entries, nothing of the previous mapping; a JSON
\* document with no tokens array or an empty one leaves the mapping empty.
C11_RefreshReplacesMapping ==
  [][\A t \in Task :
       /\ WriteTsStep(t) => cache'.ts = clock
       /\ WriteMapStep(t) =>
            /\ cache'.map = MappingOf(token_list[t])
            /\ cache'.ts = cache.ts
            /\ AddressedEntries(token_list[t]) = {} => cache'.map = EmptyMap
    ]_vars

\* A caller still has the mapping of DocA in hand while a later refresh has
\* replaced it in the cache by the empty mapping of {"tokens": []}.
C11_Witness ==
  /\ tag.map # NoTask /\ tag.map = tag.ts
  /\ tag.doc = DocEmpty
  /\ cache = [map |-> EmptyMap, ts |-> clock]
  /\ \E t \in Task : tmres[t].kind = "ok" /\ DOMAIN tmres[t].map = {"m1", "m2"}

\* The positions of the accounts of an RPC response that have a string
\* mint, and the place of such a position among them.
MintedAccounts(accounts) ==
  {i \in 1..Len(accounts) :
     "mint" \in DOMAIN accounts[i] /\ accounts[i].mint \notin NonStrings}
RankIn(idx, i) == Cardinality({j \in idx : j <= i})

\* C12: a successful join returns one record for every account of the RPC
\* response that has a string mint, in the order of the response, and
\* nothing for the other accounts (which are no error either).
C12_OutputIsMintedSubsequence ==
  \A t \in Task :
    (TokensDone(t) /\ rpc[t] = "ok" /\ tmres[t].kind = "ok") =>
      LET accounts == TokenAccounts(resp[t])
          idx == MintedAccounts(accounts)
          out == result[t].value
      IN /\ result[t].kind = "ok"
         /\ Len(out) = Cardinality(idx)
         /\ \A i \in idx :
              /\ out[RankIn(idx, i)].mint = accounts[i].mint
              /\ "decimals" \in DOMAIN accounts[i] =>
                   out[RankIn(idx, i)].decimals = accounts[i].decimals

\* Five accounts, two of them without a string mint, gave three records.
C12_Witness ==
  \E t \in Task :
    /\ TokensDone(t) /\ result[t].kind = "ok"
    /\ Len(TokenAccounts(resp[t])) = 5
    /\ Len(result[t].value) = 3
    /\ result[t].value[1].mint = "m2"
    /\ result[t].value[3].mint = "m1"

MetaFields == {"symbol", "name", "logoURI"}

\* C13: every record of a successful join has, of symbol, name and logoURI,
\* exactly the fields that the snapshot holds as strings under the record's
\* mint, with the snapshot's values; a mint the snapshot does not hold gives
\* a record with none of them.
C13_MetadataMerge ==
  \A t \in Task :
    (TokensDone(t) /\ result[t].kind = "ok") =>
      LET snapshot == tmres[t].map
          out == result[t].value
      IN \A k \in 1..Len(out) :
           /\ DOMAIN out[k] \subseteq {"mint", "amount", "decimals"} \cup MetaFields
           /\ \A f \in MetaFields :
                /\ (f \in DOMAIN out[k]) <=>
                     /\ out[k].mint \in DOMAIN snapshot
                     /\ f \in DOMAIN snapshot[out[k].mint]
                     /\ snapshot[out[k].mint][f] \notin NonStrings
                /\ f \in DOMAIN out[k] => out[k][f] = snapshot[out[k].mint][f]

\* One join returned a mint with all three fields, a mint unknown to the
\* snapshot, and a mint whose metadata has a symbol and a name that is not
\* a string.
C13_Witness ==
  \E t \in Task :
    /\ TokensDone(t) /\ result[t].kind = "ok"
    /\ Len(result[t].value) = 3
    /\ DOMAIN result[t].value[1] = {"mint", "amount", "decimals"} \cup MetaFields
    /\ DOMAIN result[t].value[2] = {"mint", "amount", "decimals"}
    /\ DOMAIN result[t].value[3] = {"mint", "amount", "decimals", "symbol"}
    /\ result[t].value[3].symbol = "S1"
    /\ "name" \in DOMAIN tmres[t].map["m1"]

\* C14: nothing is attempted twice.  A get_token_map call passes its
\* staleness check once and sends a fetch only from there, so at most once;
\* a failed fetch ends the call with the error.  A request sends its RPC
\* call when it starts and at no other point, and a failed RPC call is
\* never sent again: the request ends with the RPC error.
C14_NoRetries ==
  [][\A t \in Task :
       /\ (tm'[t] = "check" /\ tm[t] # "check") => tm[t] = "none"
       /\ (tm'[t] = "fetch" /\ tm[t] # "fetch") => tm[t] = "check"
       /\ tm[t] = "fetch" => tm'[t] \in {"fetch", "wts", "done"}
       /\ FetchFailStep(t) => tmres'[t].kind = "err"
       /\ tmres[t].kind = "err" => tm'[t] \in {"done", "none"}
       /\ (rpc'[t] = "pending" /\ rpc[t] # "pending") => pc[t] = "idle"
       /\ (pc[t] = "idle" /\ pc'[t] \in {"join", "balance"}) => rpc'[t] = "pending"
       /\ rpc[t] \in {"err", "badjson"} => rpc'[t] \in {rpc[t], "none"}
       /\ (rpc[t] = "err" /\ pc[t] = "join" /\ pc'[t] # "join") =>
            (pc'[t] = "done" /\ result'[t].kind = "err_rpc")
       /\ (pc[t] = "balance" /\ rpc'[t] = "err") =>
            (pc'[t] = "done" /\ result'[t].kind = "err_rpc")
    ]_vars

\* A join has ended with the metadata error although the token list URL
\* serves a JSON document: the failed fetch was not repeated.
C14_Witness ==
  \E t \in Task :
    /\ TokensDone(t) /\ rpc[t] = "ok"
    /\ tmres[t].kind = "err" /\ result[t].kind = "err_meta"
    /\ upstream.json

\* The step in which a handler sends its reply.
ReplyStep(t) == pc[t] = "done" /\ pc'[t] = "sent"

\* C15: the reply of a tokens request is the whole list of the join (one
\* record per account with a string mint) when both calls succeeded, and
\* otherwise the one body {"error": "Failed to fetch tokens"}, whichever
\* call failed; the reply of a balance request is the balance object or
\* {"error": "Failed to fetch balance"}.
C15_GenericErrorBodies ==
  [][\A t \in Task :
       ReplyStep(t) =>
         /\ reply'[t].sent
         /\ IF tm[t] = "done"
              THEN IF rpc[t] = "ok" /\ tmres[t].kind = "ok"
                     THEN /\ reply'[t].body = result[t].value
                          /\ Len(reply'[t].body) =
                               Cardinality(MintedAccounts(TokenAccounts(resp[t])))
                     ELSE reply'[t].body = [error |-> "Failed to fetch tokens"]
              ELSE IF rpc[t] = "ok"
                     THEN reply'[t].body = result[t].value
                     ELSE reply'[t].body = [error |-> "Failed to fetch balance"]
    ]_vars

\* A tokens request has been answered with the error body.
C15_Witness ==
  \E t \in Task :
    /\ pc[t] = "sent"
    /\ reply[t].body = [error |-> "Failed to fetch tokens"]

\* C16: the snapshot of a join is the mapping the cache held at the one
\* step in which get_token_map cloned it, it stays what it is while the
\* request lasts, and every record of the output is merged against it,
\* whatever a refresh of another request has written to the cache since.
C16_OneSnapshotPerJoin ==
  /\ [][\A t \in Task :
          /\ CloneStep(t) => tmres'[t] = [kind |-> "ok", map |-> cache.map]
          /\ (tmres[t].kind = "ok" /\ pc'[t] = pc[t]) => tmres'[t] = tmres[t]
       ]_vars
  /\ [](\A t \in Task :
          (TokensDone(t) /\ result[t].kind = "ok") =>
            result[t].value = Enrich(TokenAccounts(resp[t]), 1, tmres[t].map, <<>>))

\* A join has merged against its snapshot after another request's refresh
\* gave the cache a mapping that would have enriched the records otherwise.
C16_Witness ==
  \E t \in Task :
    /\ TokensDone(t) /\ result[t].kind = "ok"
    /\ tag.map \notin {NoTask, t}
    /\ cache.map # tmres[t].map
    /\ result[t].value # Enrich(TokenAccounts(resp[t]), 1, cache.map, <<>>)

\* A call that found the cache stale and has written its refresh.
Refreshed(t) == stale[t] /\ tm[t] \in {"read2", "clone"}

\* C17: a call that found the cache stale and whose refresh succeeded
\* returns the mapping of its own write or of a later one: its write makes
\* the cache hold its own mapping, from then until it returns the cache is
\* changed only by writes of other refreshes, and it returns the mapping
\* the cache holds then, which a refresh has written.
C17_ReturnsOwnOrLaterWrite ==
  [][\A t \in Task :
       /\ (WriteMapStep(t) /\ stale[t]) =>
            /\ tag'.map = t /\ tag'.ts = t
            /\ cache'.map = BuildTokenMap(token_list[t])
            /\ Refreshed(t)'
       /\ (Refreshed(t) /\ <<cache, tag>>' # <<cache, tag>>) =>
            \E u \in Task \ {t} : WriteTsStep(u) \/ WriteMapStep(u)
       /\ (CloneStep(t) /\ stale[t]) =>
            /\ Refreshed(t)
            /\ tag.map # NoTask /\ tag.map = tag.ts
            /\ tmres'[t] = [kind |-> "ok", map |-> cache.map]
    ]_vars

\* A call that has written its refresh is about to return the mapping that
\* another refresh wrote after it.
C17_Witness ==
  \E t \in Task :
    /\ Refreshed(t) /\ tm[t] = "clone" /\ ~Waiting(lock, t)
    /\ tag.map \notin {NoTask, t} /\ tag.map = tag.ts

\* C18: once TOKEN_MAP exists, its mapping and timestamp change only in a
\* write step of a refresh, taken by the holder of the write guard after a
\* successful fetch; every other step of every request leaves them as they
\* are; and the timestamp never decreases.
C18_OnlyRefreshWrites ==
  [][inited =>
       /\ cache' # cache =>
            \E t \in Task :
              /\ WriteTsStep(t) \/ WriteMapStep(t)
              /\ lock.writers = {t}
              /\ tmres'[t].kind # "err"
       /\ cache'.ts >= cache.ts
    ]_vars

\* Two refreshes have written one after the other, and a balance request
\* is under way.
C18_Witness ==
  /\ tag.rep /\ cache.ts > FRESH_SECS
  /\ \E t \in Task : pc[t] = "balance"

\* A refresh whose fetch has succeeded and that waits for the write guard
\* behind a read guard whose holder waits, in turn, behind it.
RefreshBlocked(t) ==
  /\ tm[t] = "wts"
  /\ \E i, j \in 1..Len(lock.queue) :
       /\ i < j
       /\ lock.queue[i] = [task |-> t, mode |-> "w"]
       /\ lock.queue[j].mode = "r"
       /\ lock.readers[lock.queue[j].task] > 0

\* C19 (the call after the upstream has recovered): a call that found the
\* cache stale and whose fetch has succeeded is never blocked for good on
\* its way to writing the refresh and returning the new mapping.
C19_RecoveredCallRefreshes == \A t \in Task : ~RefreshBlocked(t)

\* A blocked refresh stays blocked: the call never writes and never returns.
BlockedRefreshIsForever ==
  [][\A t \in Task : RefreshBlocked(t) => RefreshBlocked(t)']_vars

\* Under fair scheduling, a call whose fetch has succeeded returns a mapping.
RecoveredCallReturns ==
  \A t \in Task : (tm[t] = "wts") ~> (tm[t] = "done" /\ tmres[t].kind = "ok")

\* C19 (while the upstream fails): a failing fetch leaves the cache as it
\* is; a call that finds the cache stale fetches, and while the token list
\* URL serves no JSON its fetch can only fail, which ends the call with the
\* error; a call returns a mapping only if it found the cache fresh or has
\* written a refresh itself.
StaleCallsFetchAndFail ==
  [][\A t \in Task :
       /\ FetchFailStep(t) => (cache' = cache /\ tmres'[t].kind = "err")
       /\ (CheckStep(t) /\ clock - cache.ts > FRESH_SECS) => tm'[t] = "fetch"
       /\ (tm[t] = "fetch" /\ ~upstream.json /\ tm'[t] # "fetch") => FetchFailStep(t)
       /\ CloneStep(t) => (~stale[t] \/ tag.map # NoTask)
    ]_vars

\* A step of a balance request: it starts, its RPC call returns, it replies.
BalanceStep(t) ==
  \/ pc[t] = "idle" /\ pc'[t] = "balance"
  \/ pc[t] = "balance" /\ pc'[t] # "balance"
  \/ pc[t] = "done" /\ tm[t] = "none" /\ pc'[t] # "done"

\* C20: no step of a balance request touches TOKEN_MAP: the cache, its
\* Lazy and its lock are as before; a balance request holds no guard and
\* waits for none; and whenever its RPC call is pending, the step that ends
\* the lookup can be taken, whatever the state of the cache and its lock.
C20_BalanceLeavesCacheAlone ==
  /\ [][\A t \in Task :
          BalanceStep(t) => UNCHANGED <<cache, tag, lock, inited, second>>]_vars
  /\ [](\A t \in Task :
          pc[t] = "balance" =>
            /\ lock.readers[t] = 0 /\ t \notin lock.writers /\ ~Waiting(lock, t)
            /\ tm[t] = "none"
            /\ ENABLED BalanceDone(t))

\* A balance lookup has returned the balance while a refresh of another
\* request holds the write guard of the cache.
C20_Witness ==
  \E t \in Task :
    /\ pc[t] = "done" /\ tm[t] = "none" /\ result[t].kind = "ok"
    /\ lock.writers # {} /\ t \notin lock.writers
====
